---- MODULE Spec2Model ----
(***************************************************************************)
(* Model of the `mcp` command group of tiangong_ai_workspace/cli.py:       *)
(* `mcp services`, `mcp tools <service>` and                               *)
(* `mcp invoke <service> <tool> [--args JSON | --args-file PATH]`.         *)
(*                                                                         *)
(* One behaviour is one run of one command.  The command line is fixed in  *)
(* Init; what the environment answers (the content of the argument file,   *)
(* the secrets source, what the MCP client returns or raises) is chosen    *)
(* when the code asks for it.                                              *)
(***************************************************************************)
EXTENDS Integers, Sequences, FiniteSets, TLC

\* ------------------------------------------------------------------ bounds

\* Longest inline --args string / argument file content, in JSON tokens.
MaxLen == 5

\* Most tools a service advertises / most attachments a tool call returns.
MaxItems == 2

\* ------------------------------------------------------- program constants

ExitSecretsNotFound == 2
ExitNoServices == 3
ExitUnknownServiceTools == 4
ExitBothSources == 5
ExitInlineJson == 6
ExitFileJson == 7
ExitFileUnreadable == 8
ExitUnknownServiceInvoke == 9

\* ------------------------------------------------------------- JSON values

\* A JSON text is a sequence of lexical tokens: the six structural
\* characters, "s" for a string literal and "1" for a number literal.
Tokens == {"{", "}", "[", "]", ":", ",", "s", "1"}

RECURSIVE SeqsUpTo(_, _)
SeqsUpTo(S, n) ==
    IF n = 0 THEN {<<>>}
    ELSE LET shorter == SeqsUpTo(S, n - 1)
         IN  shorter \cup {Append(q, x) : q \in {r \in shorter : Len(r) = n - 1}, x \in S}

Texts == SeqsUpTo(Tokens, MaxLen)

\* Python values that json.loads produces, as uniform records.
JStr == [type |-> "string", keys |-> <<>>, elems |-> <<>>]
JNum == [type |-> "number", keys |-> <<>>, elems |-> <<>>]
JArr(es) == [type |-> "array", keys |-> <<>>, elems |-> es]
JObj(ks, es) == [type |-> "object", keys |-> ks, elems |-> es]

ParseFail == [ok |-> FALSE, val |-> JNum, rest |-> <<>>]
ParseOk(v, r) == [ok |-> TRUE, val |-> v, rest |-> r]

Drop(t, n) == SubSeq(t, n + 1, Len(t))

\* dict[k] = v : a repeated key keeps its position and takes the last value.
DictSet(d, k, v) ==
    IF \E i \in 1..Len(d.keys) : d.keys[i] = k
    THEN LET i == CHOOSE j \in 1..Len(d.keys) : d.keys[j] = k
         IN  JObj(d.keys, [d.elems EXCEPT ![i] = v])
    ELSE JObj(Append(d.keys, k), Append(d.elems, v))

RECURSIVE ParseValue(_), ParseElements(_, _), ParseMembers(_, _)

ParseValue(t) ==
    IF t = <<>> THEN ParseFail
    ELSE CASE Head(t) = "s" -> ParseOk(JStr, Tail(t))
           [] Head(t) = "1" -> ParseOk(JNum, Tail(t))
           [] Head(t) = "[" ->
                IF Len(t) >= 2 /\ t[2] = "]" THEN ParseOk(JArr(<<>>), Drop(t, 2))
                ELSE ParseElements(Tail(t), <<>>)
           [] Head(t) = "{" ->
                IF Len(t) >= 2 /\ t[2] = "}" THEN ParseOk(JObj(<<>>, <<>>), Drop(t, 2))
                ELSE ParseMembers(Tail(t), JObj(<<>>, <<>>))
           [] OTHER -> ParseFail

ParseElements(t, acc) ==
    LET r == ParseValue(t)
    IN  IF ~r.ok \/ r.rest = <<>> THEN ParseFail
        ELSE IF Head(r.rest) = "]" THEN ParseOk(JArr(Append(acc, r.val)), Tail(r.rest))
        ELSE IF Head(r.rest) = "," THEN ParseElements(Tail(r.rest), Append(acc, r.val))
        ELSE ParseFail

ParseMembers(t, d) ==
    IF Len(t) < 2 \/ t[1] # "s" \/ t[2] # ":" THEN ParseFail
    ELSE LET r == ParseValue(Drop(t, 2))
         IN  IF ~r.ok \/ r.rest = <<>> THEN ParseFail
             ELSE IF Head(r.rest) = "}" THEN ParseOk(DictSet(d, "s", r.val), Tail(r.rest))
             ELSE IF Head(r.rest) = "," THEN ParseMembers(Tail(r.rest), DictSet(d, "s", r.val))
             ELSE ParseFail

\* json.loads(text): the value, or JSONDecodeError (ok = FALSE) when no value
\* parses or input is left over.
JsonLoads(text) ==
    LET r == ParseValue(text)
    IN  IF r.ok /\ r.rest = <<>> THEN [ok |-> TRUE, val |-> r.val]
        ELSE [ok |-> FALSE, val |-> JNum]

\* ------------------------------------------------------------------- state

ServiceNames == {"search", "files", "other"}

\* Service sections a secrets source can define.
Configurable == {"search", "files"}

NoArgs == [given |-> FALSE, text |-> <<>>]
Inline(t) == [given |-> TRUE, text |-> t]

\* What a tool call returns: a str, a JSON-serialisable value, or some other
\* object.
ValueKinds == {"str", "json", "object"}

\* A tool as advertised: with or without a description.
ToolKinds == {"described", "plain"}

NoReturn == [tools |-> <<>>, result |-> "none", attachments |-> <<>>]

VARIABLES
    cmd,            \* "services" | "tools" | "invoke"
    service_name,   \* the <service> argument ("" for `mcp services`)
    args,           \* --args: NoArgs (None) or Inline(text)
    args_file,      \* --args-file: "None" or a path
    pc,             \* position in the command
    payload,        \* invoke_mcp_tool's local `payload`
    file_state,     \* what args_file.read_text gave: unread | oserror | undecodable | text
    secrets_state,  \* what load_secrets found: unread | missing | malformed | parsed
    mcp_servers,    \* names of the services of the parsed secrets
    load_outcome,   \* how _load_mcp_configs ended: none | returned | exit | exception
    configs,        \* the mapping _load_mcp_configs returned (its key set)
    scope,          \* the MCPToolClient `with` scope: none | open | closed
    calls,          \* calls made on the client, in order
    call_result,    \* none | ok | raised
    returned,       \* what the client call returned
    output,         \* lines echoed, in order
    exit_code,      \* process exit status once pc = "done" (-1 before)
    failure         \* which failure ended the command ("none" if none)

vars == <<cmd, service_name, args, args_file, pc, payload, file_state, secrets_state,
          mcp_servers, load_outcome, configs, scope, calls, call_result, returned,
          output, exit_code, failure>>

inputs == <<cmd, service_name, args, args_file>>

Init ==
    /\ cmd \in {"services", "tools", "invoke"}
    /\ service_name \in (IF cmd = "services" THEN {""} ELSE ServiceNames)
    /\ args \in (IF cmd = "invoke" THEN {NoArgs} \cup {Inline(t) : t \in Texts} ELSE {NoArgs})
    /\ args_file \in (IF cmd = "invoke" THEN {"None", "args.json"} ELSE {"None"})
    /\ pc = (IF cmd = "invoke" THEN "check_sources" ELSE "load")
    /\ payload = JObj(<<>>, <<>>)
    /\ file_state = [status |-> "unread", text |-> <<>>]
    /\ secrets_state = "unread"
    /\ mcp_servers = {}
    /\ load_outcome = "none"
    /\ configs = {}
    /\ scope = "none"
    /\ calls = <<>>
    /\ call_result = "none"
    /\ returned = NoReturn
    /\ output = <<>>
    /\ exit_code = -1
    /\ failure = "none"

\* Python truthiness of Optional[str] and Optional[Path]: None and "" are
\* falsy; every Path is truthy.
TruthyArgs(a) == a.given /\ a.text # <<>>
TruthyPath(p) == p # "None"

\* raise typer.Exit(code) after echoing a message.
Exit(code, kind, msg) ==
    /\ pc' = "done"
    /\ exit_code' = code
    /\ failure' = kind
    /\ output' = Append(output, msg)

\* An exception nobody catches: traceback, exit status 1, nothing echoed.
Uncaught(kind) ==
    /\ pc' = "done"
    /\ exit_code' = 1
    /\ failure' = kind
    /\ UNCHANGED output

\* ---------------------------------------------------- invoke: the arguments

\* if args and args_file: ... raise typer.Exit(code=5)
InvokeCheckSources ==
    /\ pc = "check_sources"
    /\ IF TruthyArgs(args) /\ TruthyPath(args_file)
       THEN Exit(ExitBothSources, "both_sources", "Use either --args or --args-file, not both.")
       ELSE /\ pc' = "parse"
            /\ UNCHANGED <<exit_code, failure, output>>
    /\ UNCHANGED <<inputs, payload, file_state, secrets_state, mcp_servers, load_outcome,
                   configs, scope, calls, call_result, returned>>

\* if args: payload = json.loads(args)
InvokeParseInline ==
    /\ pc = "parse"
    /\ TruthyArgs(args)
    /\ LET r == JsonLoads(args.text)
       IN  IF r.ok
           THEN /\ payload' = r.val
                /\ pc' = "load"
                /\ UNCHANGED <<exit_code, failure, output>>
           ELSE /\ Exit(ExitInlineJson, "malformed_json", "Invalid JSON for --args")
                /\ UNCHANGED payload
    /\ UNCHANGED <<inputs, file_state, secrets_state, mcp_servers, load_outcome, configs,
                   scope, calls, call_result, returned>>

\* elif args_file: payload = json.loads(args_file.read_text(encoding="utf-8"))
\* read_text raises OSError, or UnicodeDecodeError (a ValueError that neither
\* except clause names), or returns the text.
InvokeReadArgsFile ==
    /\ pc = "parse"
    /\ ~TruthyArgs(args)
    /\ TruthyPath(args_file)
    /\ \/ /\ file_state' = [status |-> "oserror", text |-> <<>>]
          /\ Exit(ExitFileUnreadable, "file_unreadable", "Failed to read arguments file")
          /\ UNCHANGED payload
       \/ /\ file_state' = [status |-> "undecodable", text |-> <<>>]
          /\ Uncaught("uncaught_read")
          /\ UNCHANGED payload
       \/ \E t \in Texts :
            /\ file_state' = [status |-> "text", text |-> t]
            /\ LET r == JsonLoads(t)
               IN  IF r.ok
                   THEN /\ payload' = r.val
                        /\ pc' = "load"
                        /\ UNCHANGED <<exit_code, failure, output>>
                   ELSE /\ Exit(ExitFileJson, "malformed_json", "Invalid JSON in file")
                        /\ UNCHANGED payload
    /\ UNCHANGED <<inputs, secrets_state, mcp_servers, load_outcome, configs, scope, calls,
                   call_result, returned>>

\* Neither branch taken: payload stays {}.
InvokeNoArgs ==
    /\ pc = "parse"
    /\ ~TruthyArgs(args)
    /\ ~TruthyPath(args_file)
    /\ pc' = "load"
    /\ UNCHANGED <<inputs, payload, file_state, secrets_state, mcp_servers, load_outcome,
                   configs, scope, calls, call_result, returned, output, exit_code, failure>>

\* --------------------------------------------------------- _load_mcp_configs

\* How load_secrets() can end: FileNotFoundError when no secrets source
\* exists, a parse/validation error when it is malformed, or the parsed
\* secrets.
LoadSecretsOutcomes == {"missing", "malformed", "parsed"}

\* Variant: the empty mapping is not checked for.
NoServices_Never(servers) == FALSE

\* if not secrets.mcp_servers
NoServices(servers) == servers = {}

LoadMcpConfigs ==
    /\ pc = "load"
    /\ \E found \in LoadSecretsOutcomes, servers \in SUBSET Configurable :
         /\ found # "parsed" => servers = {}
         /\ secrets_state' = found
         /\ mcp_servers' = servers
         /\ IF found = "missing"
            THEN \* except FileNotFoundError: ... raise typer.Exit(code=2)
                 /\ Exit(ExitSecretsNotFound, "secrets_not_found", "Secrets file not found")
                 /\ load_outcome' = "exit"
                 /\ UNCHANGED configs
            ELSE IF found = "malformed"
            THEN \* any other exception leaves the try block uncaught
                 /\ Uncaught("uncaught_secrets")
                 /\ load_outcome' = "exception"
                 /\ UNCHANGED configs
            ELSE IF NoServices(servers)
            THEN /\ Exit(ExitNoServices, "no_services", "No MCP services configured")
                 /\ load_outcome' = "exit"
                 /\ UNCHANGED configs
            ELSE /\ configs' = servers
                 /\ load_outcome' = "returned"
                 /\ pc' = "loaded"
                 /\ UNCHANGED <<exit_code, failure, output>>
    /\ UNCHANGED <<inputs, payload, file_state, scope, calls, call_result, returned>>

\* --------------------------------------------------------------- mcp services

RECURSIVE Lines(_, _)
Lines(n, line) == IF n = 0 THEN <<>> ELSE Append(Lines(n - 1, line), line)

ListMcpServices ==
    /\ pc = "loaded"
    /\ cmd = "services"
    /\ output' = <<"Configured MCP services:">> \o Lines(Cardinality(configs), "- service")
    /\ pc' = "done"
    /\ exit_code' = 0
    /\ UNCHANGED <<inputs, payload, file_state, secrets_state, mcp_servers, load_outcome,
                   configs, scope, calls, call_result, returned, failure>>

\* ------------------------------------------------- mcp tools and mcp invoke

\* Variant: the membership test is left out.
ServiceKnown_Always(name, cfgs) == TRUE

\* service_name in configs
ServiceKnown(name, cfgs) == name \in cfgs

\* Variant: list_mcp_tools reuses the exit code of 'no services configured'.
UnknownServiceCode_Reused(c) ==
    IF c = "tools" THEN ExitNoServices ELSE ExitUnknownServiceInvoke

\* raise typer.Exit(code=4) in list_mcp_tools, code=9 in invoke_mcp_tool
UnknownServiceCode(c) ==
    IF c = "tools" THEN ExitUnknownServiceTools ELSE ExitUnknownServiceInvoke

CheckService ==
    /\ pc = "loaded"
    /\ cmd \in {"tools", "invoke"}
    /\ IF ~ServiceKnown(service_name, configs)
       THEN Exit(UnknownServiceCode(cmd), "unknown_service", "Service not found")
       ELSE /\ pc' = "enter"
            /\ UNCHANGED <<exit_code, failure, output>>
    /\ UNCHANGED <<inputs, payload, file_state, secrets_state, mcp_servers, load_outcome,
                   configs, scope, calls, call_result, returned>>

\* with MCPToolClient(configs) as client: the constructor or __enter__ either
\* raises (the body never runs and __exit__ is not called) or the scope opens.
ClientEnter ==
    /\ pc = "enter"
    /\ \/ /\ scope' = "open"
          /\ pc' = "in_scope"
          /\ UNCHANGED <<exit_code, failure, output>>
       \/ /\ Uncaught("uncaught_client")
          /\ UNCHANGED scope
    /\ UNCHANGED <<inputs, payload, file_state, secrets_state, mcp_servers, load_outcome,
                   configs, calls, call_result, returned>>

Call(op) == [op |-> op, service |-> service_name, arguments |-> payload]

\* The body of the with statement: one call on the client, which returns or
\* raises.
ClientCall ==
    /\ pc = "in_scope"
    /\ calls' = Append(calls, Call(IF cmd = "tools" THEN "list_tools" ELSE "invoke_tool"))
    /\ \/ /\ call_result' = "raised"
          /\ UNCHANGED returned
       \/ /\ call_result' = "ok"
          /\ IF cmd = "tools"
             THEN \E ts \in SeqsUpTo(ToolKinds, MaxItems) :
                    returned' = [tools |-> ts, result |-> "none", attachments |-> <<>>]
             ELSE \E r \in ValueKinds, as \in SeqsUpTo(ValueKinds, MaxItems) :
                    returned' = [tools |-> <<>>, result |-> r, attachments |-> as]
    /\ pc' = "leave_scope"
    /\ UNCHANGED <<inputs, payload, file_state, secrets_state, mcp_servers, load_outcome,
                   configs, scope, output, exit_code, failure>>

\* Variant: the client is released only when the body returned (no with
\* statement, an explicit close after the call).
ScopeAfterWith_Leak(result) == IF result = "raised" THEN "open" ELSE "closed"

\* Leaving the with block calls __exit__ whether the body returned or raised.
ScopeAfterWith(result) == "closed"

\* Variant: an exception of the body is swallowed and the command goes on to
\* echo a result.
ClientExit_Swallow ==
    /\ pc = "leave_scope"
    /\ scope' = "closed"
    /\ pc' = "echo"
    /\ UNCHANGED <<inputs, payload, file_state, secrets_state, mcp_servers, load_outcome,
                   configs, calls, call_result, returned, exit_code, failure, output>>

\* After __exit__ an exception of the body goes on to the caller; were it
\* suppressed, `tools` / `result` would be unbound at the next statement.
\* Either way the command ends there with an uncaught exception.
ClientExit ==
    /\ pc = "leave_scope"
    /\ scope' = ScopeAfterWith(call_result)
    /\ IF call_result = "raised"
       THEN Uncaught("uncaught_client")
       ELSE /\ pc' = "echo"
            /\ UNCHANGED <<exit_code, failure, output>>
    /\ UNCHANGED <<inputs, payload, file_state, secrets_state, mcp_servers, load_outcome,
                   configs, calls, call_result, returned>>

\* _format_result: a str as it is, else json.dumps, else repr on TypeError.
FormatResult(value) ==
    CASE value = "str" -> "verbatim"
      [] value = "json" -> "json.dumps"
      [] OTHER -> "repr"

ToolLine(tool) == IF tool = "described" THEN "- name: description" ELSE "- name"

\* list_mcp_tools after the with block
EchoTools ==
    /\ pc = "echo"
    /\ cmd = "tools"
    /\ output' = IF returned.tools = <<>>
                 THEN Append(output, "No tools advertised by service")
                 ELSE output \o <<"Tools available on">> \o [i \in 1..Len(returned.tools) |-> ToolLine(returned.tools[i])]
    /\ pc' = "done"
    /\ exit_code' = 0
    /\ UNCHANGED <<inputs, payload, file_state, secrets_state, mcp_servers, load_outcome,
                   configs, scope, calls, call_result, returned, failure>>

\* invoke_mcp_tool after the with block
EchoResult ==
    /\ pc = "echo"
    /\ cmd = "invoke"
    /\ output' = output \o <<"Tool result:", FormatResult(returned.result)>>
                   \o (IF returned.attachments = <<>> THEN <<>>
                       ELSE <<"Attachments:">> \o [i \in 1..Len(returned.attachments) |->
                                                   FormatResult(returned.attachments[i])])
    /\ pc' = "done"
    /\ exit_code' = 0
    /\ UNCHANGED <<inputs, payload, file_state, secrets_state, mcp_servers, load_outcome,
                   configs, scope, calls, call_result, returned, failure>>

Next ==
    \/ InvokeCheckSources
    \/ InvokeParseInline
    \/ InvokeReadArgsFile
    \/ InvokeNoArgs
    \/ LoadMcpConfigs
    \/ ListMcpServices
    \/ CheckService
    \/ ClientEnter
    \/ ClientCall
    \/ ClientExit
    \/ EchoTools
    \/ EchoResult

Spec == Init /\ [][Next]_vars

\* ------------------------------------------------------------------ claims

Echoed(line) == \E i \in 1..Len(output) : output[i] = line

Invoked == \E i \in 1..Len(calls) : calls[i].op = "invoke_tool"

NoServiceContact == secrets_state = "unread" /\ scope = "none" /\ calls = <<>>

\* C1: every run of `mcp invoke` that is given both an inline --args value
\* (whatever it is, the empty string included) and an --args-file ends with
\* exit code 5, and in it secrets are never loaded, no client scope is entered
\* and invoke_tool is never called.
C1_BothSourcesAlwaysRejected ==
    (cmd = "invoke" /\ args.given /\ args_file # "None") =>
        /\ NoServiceContact
        /\ pc = "done" => (exit_code = ExitBothSources /\ failure = "both_sources")

\* The one argument source supplied is not well-formed JSON.
SoleSourceMalformed ==
    /\ cmd = "invoke"
    /\ \/ args.given /\ args_file = "None" /\ ~JsonLoads(args.text).ok
       \/ /\ ~args.given
          /\ args_file # "None"
          /\ file_state.status = "text"
          /\ ~JsonLoads(file_state.text).ok

\* C2: every run of `mcp invoke` whose single supplied argument source is not
\* well-formed JSON ends with exit code 6 (inline) or 7 (file), and in it
\* secrets are never loaded, no client scope is entered and invoke_tool is
\* never called.
C2_MalformedJsonRejectedBeforeContact ==
    SoleSourceMalformed =>
        /\ NoServiceContact
        /\ pc = "done" => exit_code = (IF args.given THEN ExitInlineJson ELSE ExitFileJson)

\* C3: in `mcp tools` and `mcp invoke`, once the service mapping is loaded and
\* the requested service is not in it, no client scope is ever entered, no
\* call is made on a client, and the command ends with the unknown-service
\* outcome (exit code 4 for tools, 9 for invoke).
C3_UnknownServiceNeverConnects ==
    (cmd \in {"tools", "invoke"} /\ load_outcome = "returned" /\ service_name \notin configs) =>
        /\ scope = "none"
        /\ calls = <<>>
        /\ pc \in {"loaded", "done"}
        /\ pc = "done" =>
             /\ failure = "unknown_service"
             /\ exit_code = (IF cmd = "tools" THEN ExitUnknownServiceTools
                             ELSE ExitUnknownServiceInvoke)

C3_Witness ==
    /\ pc = "done"
    /\ cmd = "invoke"
    /\ load_outcome = "returned"
    /\ service_name \notin configs
    /\ failure = "unknown_service"

\* C4: once control has left the with block of `mcp tools` or `mcp invoke`, the
\* client scope that was entered has been exited, whether the client call
\* returned or raised; no terminal state has a client scope still open.
C4_ScopeReleasedOnEveryExit ==
    pc \in {"echo", "done"} => scope # "open"

C4_Witness ==
    /\ pc = "done"
    /\ call_result = "raised"
    /\ scope = "closed"

ListedFailures ==
    {"secrets_not_found", "no_services", "unknown_service", "both_sources",
     "malformed_json", "file_unreadable"}

\* The failure kind an exit code stands for.
FailureOfCode(c) ==
    CASE c = 2 -> "secrets_not_found"
      [] c = 3 -> "no_services"
      [] c \in {4, 9} -> "unknown_service"
      [] c = 5 -> "both_sources"
      [] c \in {6, 7} -> "malformed_json"
      [] c = 8 -> "file_unreadable"
      [] OTHER -> "none"

\* C5: the exit code of a command that reports one of the listed failure kinds
\* determines the kind (one function from exit codes to kinds fits every run
\* of every mcp command, so no code is shared by two kinds), and it is never 0.
C5_ExitCodeIdentifiesFailure ==
    (pc = "done" /\ failure \in ListedFailures) =>
        /\ exit_code # 0
        /\ FailureOfCode(exit_code) = failure

C5_Witness ==
    /\ pc = "done"
    /\ cmd = "tools"
    /\ failure = "unknown_service"
    /\ exit_code = ExitUnknownServiceTools

\* C6: whatever loading the secrets source gives (missing, malformed, parsed
\* with no service, parsed with services), _load_mcp_configs returns the
\* mapping or ends the command with typer.Exit and a non-zero code, never with
\* an uncaught exception; a malformed source and a source without services
\* end differently.
C6_LoadNeverCrashes ==
    secrets_state # "unread" =>
        /\ load_outcome \in {"returned", "exit"}
        /\ load_outcome = "exit" => exit_code # 0
        /\ secrets_state = "malformed" => failure # "no_services"

\* C7: the arguments of every invoke_tool call are a JSON object.
C7_PayloadIsObject ==
    \A i \in 1..Len(calls) :
        calls[i].op = "invoke_tool" => calls[i].arguments.type = "object"

\* C8: a secrets source without services ends the command with 'no services
\* configured' (exit code 3); _load_mcp_configs never returns an empty
\* mapping, no client scope is entered over one and no service listing is
\* echoed for one.
C8_EmptySecretsIsNoServices ==
    /\ (secrets_state = "parsed" /\ mcp_servers = {}) =>
          /\ pc = "done"
          /\ load_outcome = "exit"
          /\ exit_code = ExitNoServices
          /\ failure = "no_services"
    /\ load_outcome = "returned" => configs # {}
    /\ scope # "none" => configs # {}
    /\ Echoed("Configured MCP services:") => configs # {}

C8_Witness ==
    /\ pc = "done"
    /\ cmd = "services"
    /\ secrets_state = "parsed"
    /\ mcp_servers = {}
    /\ exit_code = ExitNoServices

\* The checks of `mcp invoke` in the order of the claim, each with its
\* exit code; 0 when none applies to what the run has seen.
EarliestFailure ==
    IF args.given /\ args_file # "None" THEN ExitBothSources
    ELSE IF args.given /\ ~JsonLoads(args.text).ok THEN ExitInlineJson
    ELSE IF file_state.status = "text" /\ ~JsonLoads(file_state.text).ok THEN ExitFileJson
    ELSE IF file_state.status = "oserror" THEN ExitFileUnreadable
    ELSE IF secrets_state = "missing" THEN ExitSecretsNotFound
    ELSE IF secrets_state = "parsed" /\ mcp_servers = {} THEN ExitNoServices
    ELSE IF secrets_state = "parsed" /\ service_name \notin mcp_servers
         THEN ExitUnknownServiceInvoke
    ELSE 0

\* C9: `mcp invoke` ends with the exit code of the earliest check that applies
\* (both sources 5; inline malformed 6, file malformed 7, file unreadable 8;
\* secrets not found 2; no services 3; unknown service 9), and a run that ends
\* with one of these codes never entered a client scope.
C9_EarliestCheckDecides ==
    (cmd = "invoke" /\ pc = "done") =>
        /\ EarliestFailure # 0 => exit_code = EarliestFailure
        /\ exit_code \in 2..9 => scope = "none"

ToolOutput ==
    {"Tool result:", "Attachments:", "verbatim", "json.dumps", "repr",
     "Tools available on", "No tools advertised by service",
     "- name: description", "- name"}

\* C10: tool output (the tool listing, or the tool result with its
\* attachments) is echoed only once the client scope has been exited and only
\* when list_tools / invoke_tool returned normally.
C10_OutputAfterScopeAndSuccess ==
    (\E i \in 1..Len(output) : output[i] \in ToolOutput) =>
        /\ scope = "closed"
        /\ call_result = "ok"

C10_Witness ==
    /\ pc = "done"
    /\ cmd = "invoke"
    /\ Echoed("Attachments:")
    /\ scope = "closed"

====
